---- MODULE Spec2Model ----
(***************************************************************************)
(* CyclomediaView (src/unnamed/part_000): the React component that embeds  *)
(* the Cyclomedia StreetSmart API in an iframe.  The model is the          *)
(* component's state (useState cells and props), the closures of its two   *)
(* effects (the "initialize API" effect and the "open image" effect), the  *)
(* promises of StreetSmartApi.init / StreetSmartApi.open still in flight,  *)
(* and the handlers subscribed on the panorama viewers.                    *)
(*                                                                         *)
(* One action is one event-loop task: a prop change, a user interaction or *)
(* a promise completion, together with the re-render it causes and the     *)
(* effects of that render (all cleanups of the effects whose dependencies  *)
(* changed, in declaration order, then their bodies, in declaration        *)
(* order).                                                                 *)
(*                                                                         *)
(* Spec is the component with its props, user interactions and promise     *)
(* completions; ViewerSpec adds the events of the panorama viewers and     *)
(* PresentationSpec the mapPointVisible prop.  MessageSpec applies         *)
(* getErrorMessage to the errors explored, and ExportSpec is the enhancer  *)
(* of components/widgets/enhancers/tools/exportableTableWidget.js.         *)
(***************************************************************************)
EXTENDS Integers, Sequences, FiniteSets, TLC

\* Bounds of the exploration (not program constants).
MaxEvents == 3       \* host and user events explored (completions are not counted)
MaxReload == 2       \* reload clicks explored
MaxInitCalls == 2    \* init calls tracked at once (in flight, or of the current run)
MaxOpenCalls == 2    \* open calls tracked at once (in flight, subscribed, or of the current run)

\* Values of the inputs.  Absent stands for undefined / null / "".
Absent == "absent"
Usernames == {Absent, "user-1", "user-2"}
Passwords == {Absent, "pass-1"}
\* The credentials explored: none, each field alone, and two complete pairs.
Credentials == {c \in Usernames \X Passwords : c # <<"user-2", Absent>>}
ApiKeys == {Absent, "key-1"}
ImageIds == {Absent, "img-1", "img-2"}
Docs == {"doc-1", "doc-2"}      \* the documents the iframe loads, one after another
NoApi == "no-api"
NoTarget == "no-target"
NoError == "none"
AuthInitError == "AuthInitError"
OpenImageError == "OpenImageError"
VIEW_CHANGE == "VIEW_CHANGE"
RECORDING_CLICK == "RECORDING_CLICK"

VARIABLES
    mounted,        \* the component is mounted
    events,         \* number of host and user events so far
    api,            \* StreetSmartApi (useState): NoApi or the document it was loaded in
    targetElement,  \* targetElement (useState): NoTarget or the document it belongs to
    username,       \* credentials.username
    password,       \* credentials.password
    apiKey,         \* prop apiKey
    imageId,        \* prop location.properties.imageId
    mapPointVisible,\* prop mapPointVisible
    initializing,   \* useState(false)
    initialized,    \* useState(false)
    reload,         \* useState(1)
    error,          \* useState(null)
    initRun,        \* closure of the last run of the "initialize API" effect
    openRun,        \* closure of the last run of the "open image" effect
    pendingInit,    \* init promises not yet settled (call ids)
    pendingOpen,    \* open promises not yet settled (run id and the api called)
    subs,           \* handlers subscribed with panoramaViewer.on and not removed with off
    sessionLost,    \* the viewer of the current run was destroyed, and no run has followed
    libState,       \* the library instance of the current api, as the calls made on it leave it
    calls,          \* the library calls made by the last task, in order
    lastAct,        \* the task that ran last
    exc,            \* the exception a cleanup of the last task raised, and where it went
    delivered,      \* the viewer event the last task delivered, if it delivered one
    out,            \* the calls of the host's callbacks (setPov, setLocation) by the last task
    payload,        \* getErrorMessage: the error it is given
    message,        \* getErrorMessage: what it returned
    version,        \* exportableTableWidget.js: which of its two definitions is in use
    widgetTools,    \* the widgetTools prop the enhancer receives
    enhanced,       \* the widgetTools prop the enhancer passes on
    fetches,        \* dataset lookups in flight, by the code that issued them
    clicks,         \* clicks on the download entry so far
    windows,        \* the windows the last task opened
    lastTotal,      \* total of the lookup response the last task handled
    exportAct       \* the last task of the enhancer

viewVars == <<mounted, events, api, targetElement, username, password, apiKey, imageId,
              mapPointVisible,
          initializing, initialized, reload, error, initRun, openRun,
          pendingInit, pendingOpen, subs, sessionLost, libState, calls, lastAct, exc,
              delivered, out>>

\* The variables of the functions outside the component's state machine.
errVars == <<payload, message>>
exportVars == <<version, widgetTools, enhanced, fetches, clicks, windows, lastTotal, exportAct>>
auxVars == <<errVars, exportVars>>

vars == <<viewVars, auxVars>>

Call(op, id, ev) == [op |-> op, id |-> id, ev |-> ev]
Handler(run, ev, a) == [run |-> run, ev |-> ev, api |-> a]
OpenCall(run, a) == [id |-> run, api |-> a]

NoEvent == [kind |-> "none"]

NoInitRun == [active |-> FALSE, api |-> NoApi, target |-> NoTarget, call |-> 0]
NoOpenRun == [active |-> FALSE, id |-> 0, api |-> NoApi, hasViewer |-> FALSE]

\* The state cells and props a render sees.
Inputs == [api |-> api, target |-> targetElement, username |-> username,
           password |-> password, apiKey |-> apiKey, reload |-> reload,
           imageId |-> imageId, initialized |-> initialized,
           initializing |-> initializing, error |-> error]

\* The guard of line 130 without its apiKey test.
InitGuard_NoApiKey(n) ==
    /\ n.api # NoApi
    /\ n.username # Absent
    /\ n.password # Absent

\* Line 130: the guard of the "initialize API" effect, as the condition to go on.
InitGuard(n) ==
    /\ n.api # NoApi
    /\ n.username # Absent
    /\ n.password # Absent
    /\ n.apiKey # Absent

\* The guard of line 181 without its initialized test.
OpenGuard_NoInitialized(n) ==
    /\ n.api # NoApi
    /\ n.imageId # Absent

\* Line 181: the guard of the "open image" effect, as the condition to go on.
OpenGuard(n) ==
    /\ n.api # NoApi
    /\ n.imageId # Absent
    /\ n.initialized

\* The dependency list of line 157 without reload.
InitDeps_NoReload(n) == <<n.api, n.username, n.password, n.apiKey>>

\* Line 157: the dependency list of the "initialize API" effect.
InitDeps(n) == <<n.api, n.username, n.password, n.apiKey, n.reload>>

\* Line 206: the dependency list of the "open image" effect.
OpenDeps(n) == <<n.api, n.initialized, n.imageId>>

\* A cleanup that destroys whatever the targetElement cell holds, also after a
\* run that stopped at the guard.
InitCleanup_Always == <<Call("destroy", 0, targetElement)>>

\* Lines 149-156: the cleanup the "initialize API" effect returned.  A run that
\* stopped at the guard returned () => {}.
InitCleanup ==
    IF initRun.active THEN <<Call("destroy", 0, initRun.target)>> ELSE <<>>

\* A cleanup that forgets the RECORDING_CLICK handler.
OpenCleanup_ViewOnly ==
    IF openRun.active /\ openRun.hasViewer
    THEN <<Call("off", openRun.id, VIEW_CHANGE)>>
    ELSE <<>>

\* A cleanup that reads the viewer and the handlers from a place every run
\* shares, and so unsubscribes whichever handlers are subscribed.
OpenCleanup_SharedViewer ==
    IF subs # {}
    THEN LET r == CHOOSE r \in {h.run : h \in subs} : TRUE
         IN  <<Call("off", r, VIEW_CHANGE), Call("off", r, RECORDING_CLICK)>>
    ELSE <<>>

\* Lines 200-205: the cleanup the "open image" effect returned.  panoramaViewer
\* and the handlers are set only once the open promise of this run resolved.
OpenCleanup ==
    IF openRun.active /\ openRun.hasViewer
    THEN <<Call("off", openRun.id, VIEW_CHANGE), Call("off", openRun.id, RECORDING_CLICK)>>
    ELSE <<>>

\* Lines 131-148: the body of the "initialize API" effect past its guard.
InitBody(c) == <<Call("init", c, "")>>

\* Lines 182-199 (and 108-126): the body of the "open image" effect past its guard.
OpenBody(r) == <<Call("open", r, "")>>

\* Bodies run before the cleanups of the previous runs.
EffectOrder_BodiesFirst(cleanups, bodies) == bodies \o cleanups

\* The order in which one commit runs the effects: every cleanup, then every body.
EffectOrder(cleanups, bodies) == cleanups \o bodies

\* The handlers a sequence of off calls removes.
Removed(cs) ==
    {h \in subs : \E i \in DOMAIN cs :
        cs[i].op = "off" /\ cs[i].id = h.run /\ cs[i].ev = h.ev}

\* Lines 257-270: the Alert is displayed when error is set, and holds the reload
\* Button only when initialized.
ReloadEnabled == error # NoError /\ initialized

\* The smallest id of ids that no call in use carries (0 if there is none).  The
\* code has no ids: a call is its promise and the closure of the run that made it.
FreshId(ids, used) ==
    IF ids \ used = {} THEN 0
    ELSE CHOOSE i \in ids \ used : \A j \in ids \ used : i <= j

\* The library call of a teardown that throws: none, destroy (line 151), the
\* first off (line 202) or the second off (line 203).
Throws == {"none", "destroy", "off-1", "off-2"}

\* Lines 200-205: the position, in the cleanup of the "open image" effect, of
\* the off call that throws (0 if none does).  Nothing catches it there.
ThrowAt(t) == IF t = "off-1" THEN 1 ELSE IF t = "off-2" THEN 2 ELSE 0

\* Lines 150-154: what becomes of an exception of the teardown: the catch of
\* line 152 logs the one of destroy; the one of off leaves the cleanup.
Outcome(t) ==
    IF t = "none" THEN "none" ELSE IF t = "destroy" THEN "caught" ELSE "escaped"

(***************************************************************************)
(* Apply(n, act, pi, ls): the render with the cells and props n, and the   *)
(* effects of that render; pi and ls are the init promises in flight and   *)
(* the state of the library when the render starts.                        *)
(***************************************************************************)
Apply(n, act, pi, ls) ==
    \E t \in Throws :
    LET initChg == InitDeps(n) # InitDeps(Inputs)
        openChg == OpenDeps(n) # OpenDeps(Inputs)
        k == ThrowAt(t)
        escapes == Outcome(t) = "escaped"
        initGo == initChg /\ InitGuard(n) /\ ~escapes
        openGo == openChg /\ OpenGuard(n) /\ ~escapes
        initClean == IF initChg THEN InitCleanup ELSE <<>>
        openAll == IF openChg THEN OpenCleanup ELSE <<>>
        openClean == IF escapes THEN SubSeq(openAll, 1, k) ELSE openAll
        lateClean == IF escapes /\ ~initChg THEN InitCleanup ELSE <<>>
        cleanups == initClean \o openClean \o lateClean
        destroyed == \E i \in DOMAIN (initClean \o lateClean) : initRun.api = n.api
        lib0 == IF n.api # api THEN "uninit"
                ELSE IF destroyed THEN "destroyed" ELSE ls
        subs1 == subs \ Removed(IF escapes THEN SubSeq(openAll, 1, k - 1) ELSE openAll)
        c == FreshId(1..MaxInitCalls, pi)
        r == FreshId(1..MaxOpenCalls, {o.id : o \in pendingOpen} \cup {h.run : h \in subs1})
        bodies == (IF initGo THEN InitBody(c) ELSE <<>>) \o (IF openGo THEN OpenBody(r) ELSE <<>>)
    IN  /\ t = "destroy" => initClean # <<>>
        /\ escapes => k <= Len(openAll)
        /\ initGo => c # 0
        /\ openGo => r # 0
        /\ mounted' = ~escapes
        /\ api' = n.api
        /\ targetElement' = n.target
        /\ username' = n.username
        /\ password' = n.password
        /\ apiKey' = n.apiKey
        /\ reload' = n.reload
        /\ imageId' = n.imageId
        /\ initialized' = n.initialized
        /\ initializing' = (IF initGo THEN TRUE ELSE n.initializing)
        /\ error' = n.error
        /\ initRun' = IF initGo THEN [active |-> TRUE, api |-> n.api, target |-> n.target, call |-> c]
                      ELSE IF initChg \/ escapes THEN NoInitRun ELSE initRun
        /\ openRun' = IF openGo THEN [active |-> TRUE, id |-> r, api |-> n.api, hasViewer |-> FALSE]
                      ELSE IF openChg THEN NoOpenRun ELSE openRun
        /\ pendingInit' = IF initGo THEN pi \cup {c} ELSE pi
        /\ pendingOpen' = IF openGo THEN pendingOpen \cup {OpenCall(r, n.api)} ELSE pendingOpen
        /\ subs' = subs1
        /\ sessionLost' = IF openChg \/ escapes THEN FALSE
                          ELSE IF initClean # <<>> /\ openRun.active /\ openRun.hasViewer
                                  /\ initRun.api = openRun.api
                               THEN TRUE
                               ELSE sessionLost
        /\ libState' = IF initGo THEN "initializing" ELSE lib0
        /\ calls' = EffectOrder(cleanups, bodies)
        /\ lastAct' = act
        /\ exc' = Outcome(t)
        /\ delivered' = NoEvent
        /\ out' = <<>>
        /\ UNCHANGED <<mapPointVisible, auxVars>>

\* One more host or user event, within the bound of the exploration.
Event ==
    /\ events < MaxEvents
    /\ events' = events + 1

\* Lines 78-100: the component after its first render: nothing loaded, props as
\* the host passes them, credentials as stored.  The second username and the
\* second image id are left to the change actions: they are interchangeable
\* with the first.
ViewInit ==
    /\ mounted = TRUE
    /\ events = 0
    /\ api = NoApi
    /\ targetElement = NoTarget
    /\ \E c \in Credentials : c[1] # "user-2" /\ username = c[1] /\ password = c[2]
    /\ apiKey \in ApiKeys
    /\ imageId \in {Absent, "img-1"}
    /\ mapPointVisible = TRUE
    /\ initializing = FALSE
    /\ initialized = FALSE
    /\ reload = 1
    /\ error = NoError
    /\ exc = "none"
    /\ delivered = NoEvent
    /\ out = <<>>
    /\ initRun = NoInitRun
    /\ openRun = NoOpenRun
    /\ pendingInit = {}
    /\ pendingOpen = {}
    /\ subs = {}
    /\ sessionLost = FALSE
    /\ libState = "uninit"
    /\ calls = <<>>
    /\ lastAct = "mount"

\* Line 259: getErrorMessage has not been given an error.
NoPayload == [kind |-> "null", text |-> <<>>]
NoMessage == [kind |-> "none", text |-> <<>>]
ErrIdle == payload = NoPayload /\ message = NoMessage

\* exportableTableWidget.js: the enhancer has not been applied.
NoTools == [defined |-> FALSE, tools |-> <<>>]
NoFetches == [origin \in {"render", "click"} |-> 0]
ExportIdle ==
    /\ version = 1
    /\ widgetTools = NoTools
    /\ enhanced = <<>>
    /\ fetches = NoFetches
    /\ clicks = 0
    /\ windows = <<>>
    /\ lastTotal = -1
    /\ exportAct = "idle"

AuxIdle == ErrIdle /\ ExportIdle

Init == ViewInit /\ AuxIdle

\* Lines 251-254: the iframe's onLoad, for the document d it has loaded: both
\* cells are set in the same batch.  The first document loaded is doc-1, a
\* reload of the iframe gives the other one; a name is not given to a new
\* document while a call or a handler of an older document still carries it.
IframeLoad(d) ==
    /\ mounted
    /\ d # targetElement
    /\ targetElement = NoTarget => d = "doc-1"
    /\ d \notin {h.api : h \in subs} \cup {o.api : o \in pendingOpen}
    /\ Event
    /\ Apply([Inputs EXCEPT !.target = d, !.api = d], "load", pendingInit, libState)

\* Lines 246-249: the credentials form stores new credentials.  The effects
\* compare a username only with the previous one, so the first one entered is
\* user-1.
SetCredentials(u, p) ==
    /\ mounted
    /\ <<u, p>> # <<username, password>>
    /\ username = Absent => u # "user-2"
    /\ Event
    /\ Apply([Inputs EXCEPT !.username = u, !.password = p], "credentials", pendingInit, libState)

\* Line 78: the host passes another apiKey.
ChangeApiKey(k) ==
    /\ mounted
    /\ k # apiKey
    /\ Event
    /\ Apply([Inputs EXCEPT !.apiKey = k], "apiKey", pendingInit, libState)

\* Lines 83-84: the host passes another location.  The effects compare an image
\* id only with the previous one, so the first one passed is img-1.
ChangeLocation(img) ==
    /\ mounted
    /\ img # imageId
    /\ imageId = Absent => img # "img-2"
    /\ Event
    /\ Apply([Inputs EXCEPT !.imageId = img], "imageId", pendingInit, libState)

\* Lines 261-268: the onClick of the reload Button.
Reload ==
    /\ mounted
    /\ ReloadEnabled
    /\ reload < MaxReload + 1
    /\ Event
    /\ Apply([Inputs EXCEPT !.error = NoError, !.reload = reload + 1], "reload", pendingInit, libState)

\* The library instance after init call c settled: only the call issued last, on
\* an instance not destroyed since, decides it.
LibAfterInit(c, ok) ==
    IF initRun.active /\ c = initRun.call /\ libState = "initializing"
    THEN (IF ok THEN "ready" ELSE "failed")
    ELSE libState

\* Lines 141-143: the cells after the init promise resolved.
InitThen(n) == [n EXCEPT !.initializing = FALSE, !.initialized = TRUE]

\* A catch that also marks the API initialized.
InitCatch_SetsInitialized(n) ==
    [n EXCEPT !.initializing = FALSE, !.initialized = TRUE, !.error = AuthInitError]

\* Lines 144-148: the cells after the init promise rejected.
InitCatch(n) == [n EXCEPT !.initializing = FALSE, !.error = AuthInitError]

\* Lines 141-148: the promise of init call c settles.  On an unmounted component
\* the setters do nothing.
InitSettle(c, ok) ==
    /\ c \in pendingInit
    /\ IF mounted
       THEN Apply(IF ok THEN InitThen(Inputs) ELSE InitCatch(Inputs),
                  IF ok THEN "initOk" ELSE "initFail",
                  pendingInit \ {c}, LibAfterInit(c, ok))
       ELSE /\ pendingInit' = pendingInit \ {c}
            /\ libState' = LibAfterInit(c, ok)
            /\ calls' = <<>>
            /\ lastAct' = IF ok THEN "initOk" ELSE "initFail"
            /\ exc' = "none"
            /\ delivered' = NoEvent
            /\ out' = <<>>
            /\ UNCHANGED <<mounted, api, targetElement, username, password, apiKey,
                           imageId, initializing, initialized, reload, error, initRun,
                           openRun, pendingOpen, subs, sessionLost, mapPointVisible,
                           auxVars>>
    /\ UNCHANGED events

\* Lines 186-193: the handlers the then-callback of open call o subscribes on
\* the viewer it got.
Subscribed(o) ==
    {Handler(o.id, VIEW_CHANGE, o.api), Handler(o.id, RECORDING_CLICK, o.api)}

\* Lines 186-199: the promise of open call o settles: with a viewer (result[0]),
\* with no viewer, or rejected.  The closure variables written are those of the
\* run that made the call, which the cleanup of that run reads if it has not
\* run yet.
OpenSettle(o, outcome) ==
    /\ o \in pendingOpen
    /\ pendingOpen' = pendingOpen \ {o}
    /\ subs' = IF outcome = "viewer" THEN subs \cup Subscribed(o) ELSE subs
    /\ openRun' = IF outcome = "viewer" /\ openRun.active /\ openRun.id = o.id
                  THEN [openRun EXCEPT !.hasViewer = TRUE]
                  ELSE openRun
    /\ error' = IF outcome = "reject" /\ mounted THEN OpenImageError ELSE error
    /\ calls' = IF outcome = "viewer"
                THEN <<Call("on", o.id, VIEW_CHANGE), Call("on", o.id, RECORDING_CLICK)>>
                ELSE <<>>
    /\ lastAct' = IF outcome = "viewer" THEN "openOk"
                  ELSE IF outcome = "empty" THEN "openEmpty" ELSE "openFail"
    /\ exc' = "none"
    /\ delivered' = NoEvent
    /\ out' = <<>>
    /\ UNCHANGED <<mounted, api, targetElement, username, password, apiKey,
                   imageId, initializing, initialized, reload, initRun,
                   pendingInit, libState, events, sessionLost, mapPointVisible, auxVars>>

\* The component unmounts: every effect's cleanup runs, in declaration order.
\* An exception of one cleanup does not keep the others from running.
Unmount ==
    \E t \in Throws :
    LET k == ThrowAt(t)
        escapes == Outcome(t) = "escaped"
        openClean == IF escapes THEN SubSeq(OpenCleanup, 1, k) ELSE OpenCleanup
    IN  /\ mounted
        /\ t = "destroy" => InitCleanup # <<>>
        /\ escapes => k <= Len(OpenCleanup)
        /\ Event
        /\ mounted' = FALSE
        /\ calls' = EffectOrder(InitCleanup \o openClean, <<>>)
        /\ subs' = subs \ Removed(IF escapes THEN SubSeq(OpenCleanup, 1, k - 1) ELSE OpenCleanup)
        /\ initRun' = NoInitRun
        /\ openRun' = NoOpenRun
        /\ sessionLost' = FALSE
        /\ libState' = IF initRun.active /\ initRun.api = api THEN "destroyed" ELSE libState
        /\ lastAct' = "unmount"
        /\ exc' = Outcome(t)
        /\ delivered' = NoEvent
        /\ out' = <<>>
        /\ UNCHANGED <<api, targetElement, username, password, apiKey, imageId,
                       initializing, initialized, reload, error, pendingInit, pendingOpen,
                       mapPointVisible, auxVars>>

Next ==
    \/ \E d \in Docs : IframeLoad(d)
    \/ \E c \in Credentials : SetCredentials(c[1], c[2])
    \/ \E k \in ApiKeys : ChangeApiKey(k)
    \/ \E img \in ImageIds : ChangeLocation(img)
    \/ Reload
    \/ \E c \in pendingInit, ok \in BOOLEAN : InitSettle(c, ok)
    \/ \E o \in pendingOpen, outcome \in {"viewer", "empty", "reject"} : OpenSettle(o, outcome)
    \/ Unmount

Spec == Init /\ [][Next]_vars

(***************************************************************************)
(* The events of the panorama viewers.                                     *)
(***************************************************************************)

\* The details of the events explored.  <<>> and Absent stand for a property
\* that is undefined.
Yaws == {45, 90}
Pitches == {-10, 45}
ViewDetails == [yaw : Yaws, pitch : Pitches]
Xyzs == {<<>>, <<10, 20, 5>>, <<7, 20, 5>>}
Recordings == [xyz : Xyzs, id : {Absent, "img-1", "img-2"}, srs : {"EPSG:4326"}]
RecordingDetails ==
    {[kind |-> "undefined"], [kind |-> "no-recording"]}
        \cup {[kind |-> "recording", recording |-> rc] : rc \in Recordings}

HostCall(fn, arg) == [fn |-> fn, arg |-> arg]

\* Lines 159-162: changeView, as the calls of the host's callbacks it makes.
changeView(detail) ==
    <<HostCall("setPov", [heading |-> detail.yaw, pitch |-> detail.pitch])>>

\* Lines 163-178: changeRecording, as the calls of the host's callbacks it
\* makes.  xyz[0] and xyz[1] of the source are xyz[1] and xyz[2] here.
changeRecording(detail) ==
    IF detail.kind = "recording"
       /\ detail.recording.xyz # <<>>
       /\ detail.recording.id # Absent
    THEN LET recording == detail.recording
         IN  <<HostCall("setLocation",
                   [latLng |-> [lat |-> recording.xyz[2], lng |-> recording.xyz[1]],
                    properties |-> [xyz |-> recording.xyz, id |-> recording.id,
                                    srs |-> recording.srs, imageId |-> recording.id]])>>
    ELSE <<>>

\* Lines 189-192: the handlers an event of kind e reaches when the viewer that
\* run r obtained from api d emits it.  Whether two open calls on the same api
\* resolve with the same viewer instance is the library's choice (replace:
\* true, line 116): if they do (shared), the handlers of every run on d are
\* subscribed on the one instance.
Reached(e, d, r, shared) ==
    {h \in subs : h.ev = e /\ h.api = d /\ (shared \/ h.run = r)}

\* The calls n handlers make, each making the calls cs.
Each(n, cs) == [i \in 1..(n * Len(cs)) |-> cs[((i - 1) % Len(cs)) + 1]]

\* The viewer of run r emits an event of kind e; act names the task.
Emit(e, d, r, shared, detail, cs, act) ==
    LET hs == Reached(e, d, r, shared)
    IN  /\ Handler(r, e, d) \in subs
        /\ shared => \A h \in hs : r <= h.run
        /\ delivered' = [kind |-> e, detail |-> detail, fired |-> Cardinality(hs)]
        /\ out' = Each(Cardinality(hs), cs)
        /\ calls' = <<>>
        /\ lastAct' = act
        /\ exc' = "none"
        /\ UNCHANGED <<mounted, events, api, targetElement, username, password,
                       apiKey, imageId, initializing, initialized, reload, error,
                       initRun, openRun, pendingInit, pendingOpen, subs, libState,
                       sessionLost, mapPointVisible, auxVars>>

\* Lines 189 and 191: a viewer emits VIEW_CHANGE; every handler reached calls
\* changeView.
ViewChange(d, r, shared, detail) ==
    Emit(VIEW_CHANGE, d, r, shared, detail, changeView(detail), "viewChange")

\* Lines 190 and 192: a viewer emits RECORDING_CLICK; every handler reached
\* calls changeRecording.
RecordingClick(d, r, shared, detail) ==
    Emit(RECORDING_CLICK, d, r, shared, detail, changeRecording(detail), "recordingClick")

ViewerNext ==
    \/ Next
    \/ \E d \in Docs, r \in 1..MaxOpenCalls, shared \in BOOLEAN, detail \in ViewDetails :
          ViewChange(d, r, shared, detail)
    \/ \E d \in Docs, r \in 1..MaxOpenCalls, shared \in BOOLEAN, detail \in RecordingDetails :
          RecordingClick(d, r, shared, detail)

ViewerSpec == Init /\ [][ViewerNext]_vars

\* A promise the library returned settles; its callbacks then run.  The
\* behaviours start with an apiKey and an image id passed by the host.
FairInit == Init /\ apiKey # Absent /\ imageId # Absent

FairSpec ==
    /\ FairInit
    /\ [][Next]_vars
    /\ WF_vars(\E c \in pendingInit, ok \in BOOLEAN : InitSettle(c, ok))
    /\ WF_vars(\E o \in pendingOpen, outcome \in {"viewer", "empty", "reject"} : OpenSettle(o, outcome))

(***************************************************************************)
(* What the component renders (lines 208-215 and 242-272).                 *)
(***************************************************************************)

\* Line 209.
hasCredentials == username # Absent /\ password # Absent

\* Line 211.
showCredentialsForm == ~hasCredentials

\* Line 213.
showPanoramaViewer ==
    /\ api # NoApi
    /\ initialized
    /\ imageId # Absent
    /\ ~showCredentialsForm
    /\ error = NoError

\* Line 215.
showEmptyView == ~showCredentialsForm /\ ~showPanoramaViewer /\ error = NoError

\* An EmptyView without its first test.
EmptyView_NoZoomIn ==
    IF initialized THEN "empty"
    ELSE IF initializing THEN "initializing"
    ELSE IF api = NoApi THEN "loadingAPI"
    ELSE "null"

\* Lines 35-58: what EmptyView returns: the placeholder with the zoomIn
\* message, the plain placeholder, the one with the initializing message, the
\* one with the loadingAPI message, or null.
EmptyView ==
    IF initialized /\ ~mapPointVisible THEN "zoomIn"
    ELSE IF initialized THEN "empty"
    ELSE IF initializing THEN "initializing"
    ELSE IF api = NoApi THEN "loadingAPI"
    ELSE "null"

\* Line 250: the empty-state on screen ("null": none).
EmptyState == IF showEmptyView THEN EmptyView ELSE "null"

\* Line 254: the iframe of the panorama viewer is displayed.
PanoramaVisible == showPanoramaViewer

\* Line 257: the Alert is displayed.
ErrorBanner == error # NoError

\* Line 78: the host passes another mapPointVisible; the component renders
\* again, and no dependency of an effect has changed.
ChangeMapPointVisible(v) ==
    /\ mounted
    /\ v # mapPointVisible
    /\ mapPointVisible' = v
    /\ calls' = <<>>
    /\ lastAct' = "mapPoint"
    /\ exc' = "none"
    /\ delivered' = NoEvent
    /\ out' = <<>>
    /\ UNCHANGED <<mounted, events, api, targetElement, username, password,
                   apiKey, imageId, initializing, initialized, reload, error,
                   initRun, openRun, pendingInit, pendingOpen, subs, libState,
                   sessionLost, auxVars>>

PresentationNext ==
    \/ Next
    \/ \E v \in BOOLEAN : ChangeMapPointVisible(v)

PresentationSpec == Init /\ [][PresentationNext]_vars

(***************************************************************************)
(* getErrorMessage (lines 17-22), applied to the errors a promise of the   *)
(* library may reject with.                                                *)
(***************************************************************************)

MaxText == 4    \* characters of the texts explored

\* Texts are sequences of characters; AuthFailedText stands for the text
\* "init::Loading user info failed with status code 401" of line 18.
Chars == {"a", "b"}
AuthFailedText == <<"a", "b">>
Texts == UNION {[1..n -> Chars] : n \in 0..MaxText}

\* The errors explored: null, a string, an object with a message, an object
\* without one (@param {object|string} error, line 14).
Payloads ==
    {NoPayload, [kind |-> "object-no-message", text |-> <<>>]}
        \cup {[kind |-> kd, text |-> tx] : kd \in {"string", "object"}, tx \in Texts}

\* String.prototype.indexOf: the first position (from 0) at which m occurs in
\* s, or -1.
indexOf(s, m) ==
    LET at == {i \in 0..(Len(s) - Len(m)) : SubSeq(s, i + 1, i + Len(m)) = m}
    IN  IF at = {} THEN -1 ELSE CHOOSE i \in at : \A j \in at : i <= j

InvalidCredentialsMessage ==
    [kind |-> "Message", text |-> <<"streetView.cyclomedia.invalidCredentials">>]
UnknownError == [kind |-> "text", text |-> <<"Unknown error">>]

\* Lines 17-22.  error?.indexOf?.(...) is a number only for a string: an
\* object has no indexOf, and undefined >= 0 is false.  error?.message is
\* undefined for null, for a string and for an object without a message.
getErrorMessage(err) ==
    IF err.kind = "string" /\ indexOf(err.text, AuthFailedText) >= 0
    THEN InvalidCredentialsMessage
    ELSE IF err.kind = "object"
         THEN [kind |-> "text", text |-> err.text]
         ELSE UnknownError

\* Line 259: the Alert renders getErrorMessage(error).
GetErrorMessage ==
    /\ message = NoMessage
    /\ message' = getErrorMessage(payload)
    /\ UNCHANGED <<viewVars, payload, exportVars>>

\* The component at rest, with the props and credentials absent.
ViewIdle ==
    ViewInit /\ username = Absent /\ password = Absent /\ apiKey = Absent /\ imageId = Absent

MessageInit == ViewIdle /\ ExportIdle /\ payload \in Payloads /\ message = NoMessage

MessageSpec == MessageInit /\ [][GetErrorMessage]_vars

(***************************************************************************)
(* exportableTableWidget.js: the enhancer that adds the download entry to  *)
(* the tools of a widget.  The file holds two definitions of it (lines     *)
(* 13-43 and lines 54-94).                                                 *)
(***************************************************************************)

MaxTools == 2     \* incoming widgetTools explored
MaxClicks == 2    \* clicks on the download entry explored

Versions == {1, 2}
Totals == {0, 1, 2}     \* resData.total of the lookup responses explored
DownloadFileUrl == "download_file_url"

Tool(glyph, glyphClassName, target, textId, disabled) ==
    [glyph |-> glyph, glyphClassName |-> glyphClassName, target |-> target,
     textId |-> textId, disabled |-> disabled]

\* The tools other enhancers may have put in widgetTools.
OtherTools ==
    {Tool("pencil", "", "menu", "widgets.widget.menu.edit", FALSE),
     Tool("trash", "", "menu", "widgets.widget.menu.delete", FALSE),
     Tool("download", "exportCSV", "menu", "widgets.widget.menu.downloadData", FALSE)}

\* The widgetTools props explored: undefined, or up to MaxTools tools.
ToolsGiven ==
    {NoTools} \cup {[defined |-> TRUE, tools |-> ts] :
                      ts \in UNION {[1..n -> OtherTools] : n \in 0..MaxTools}}

\* Lines 54-63: downloadUrl returns "" whatever the lookup answers (the url
\* returned inside then is the value of the promise, which nothing reads).
downloadUrl == ""

\* Lines 22 and 77: the disabled property of the entry.
Disabled(v) == IF v = 1 THEN FALSE ELSE downloadUrl = ""

\* Lines 17-39 and 72-84: the entry the enhancer appends.
DownloadEntry(v) ==
    Tool("download", "exportCSV", "menu", "widgets.widget.menu.downloadData", Disabled(v))

\* Lines 14-16 and 69-71: widgetTools = [] when undefined, then
\* [...widgetTools, entry].
withProps(v, given) ==
    (IF given.defined THEN given.tools ELSE <<>>) \o <<DownloadEntry(v)>>

\* The test of line 29, true for every response that has a resource.
OpensWindow_AnyTotal(total) == total >= 1

\* Line 29: if (resData.total === 1).
OpensWindow(total) == total = 1

\* Lines 14 and 69: the enhancer computes the props.  The second definition
\* calls downloadUrl for the disabled property, which issues a lookup.
Render ==
    /\ exportAct = "idle"
    /\ enhanced' = withProps(version, widgetTools)
    /\ fetches' = IF version = 2 THEN [fetches EXCEPT !["render"] = @ + 1] ELSE fetches
    /\ windows' = <<>>
    /\ lastTotal' = -1
    /\ exportAct' = "render"
    /\ UNCHANGED <<viewVars, errVars, version, widgetTools, clicks>>

\* Lines 23-38 and 78-83: onClick of the entry.  The first definition issues
\* the lookup; the second calls downloadUrl, which issues the lookup and
\* returns "", and opens a window only if the url is not empty.
Click ==
    /\ exportAct # "idle"
    /\ clicks < MaxClicks
    /\ clicks' = clicks + 1
    /\ fetches' = [fetches EXCEPT !["click"] = @ + 1]
    /\ windows' = IF version = 2 /\ downloadUrl # "" THEN <<downloadUrl>> ELSE <<>>
    /\ lastTotal' = -1
    /\ exportAct' = "click"
    /\ UNCHANGED <<viewVars, errVars, version, widgetTools, enhanced>>

\* Lines 28-37 and 56-61: the lookup issued by origin answers with total.
\* The then-callback of the first definition opens the window; the one of
\* the second only returns a url.
Response(origin, total) ==
    /\ fetches[origin] > 0
    /\ fetches' = [fetches EXCEPT ![origin] = @ - 1]
    /\ windows' = IF version = 1 /\ OpensWindow(total) THEN <<DownloadFileUrl>> ELSE <<>>
    /\ lastTotal' = total
    /\ exportAct' = "response"
    /\ UNCHANGED <<viewVars, errVars, version, widgetTools, enhanced, clicks>>

ExportInit ==
    /\ ViewIdle
    /\ ErrIdle
    /\ version \in Versions
    /\ widgetTools \in ToolsGiven
    /\ enhanced = <<>>
    /\ fetches = NoFetches
    /\ clicks = 0
    /\ windows = <<>>
    /\ lastTotal = -1
    /\ exportAct = "idle"

ExportNext ==
    \/ Render
    \/ Click
    \/ \E origin \in {"render", "click"}, total \in Totals : Response(origin, total)

ExportSpec == ExportInit /\ [][ExportNext]_vars

(***************************************************************************)
(* Properties                                                              *)
(***************************************************************************)

\* The positions of the calls of kind op in a call sequence.
At(cs, op) == {i \in DOMAIN cs : cs[i].op = op}

\* C1: every subscribed VIEW_CHANGE or RECORDING_CLICK handler belongs to the
\* run of the "open image" effect that has not been torn down yet: once the
\* cleanup of a run has run (imageId, initialized or api changed, or unmount),
\* none of the handlers that run registers is subscribed.
C1_NoHandlerOutlivesItsRun ==
    \A h \in subs : openRun.active /\ openRun.id = h.run

\* C2: at most one viewer session (an opened viewer with subscribed handlers)
\* exists per api handle.
C2_AtMostOneSessionPerApi ==
    \A d \in Docs : Cardinality({h.run : h \in {x \in subs : x.api = d}}) <= 1

\* C4: an open call or a subscription is made only while imageId is present, the
\* initialized flag is set and the library instance is initialized (not
\* destroyed, and not waiting for a re-issued init call to succeed).
C4_OpenOnlyWhileInitialized ==
    \A i \in At(calls, "open") \cup At(calls, "on") :
        imageId # Absent /\ initialized /\ libState = "ready"

\* C10: an init call is issued only when api, username, password and apiKey are
\* all present.
C10_InitOnlyWhenAllPresent ==
    At(calls, "init") # {} =>
        api # NoApi /\ username # Absent /\ password # Absent /\ apiKey # Absent

\* C10 witness: an init call has just been issued.
C10_Witness == At(calls, "init") # {} /\ lastAct = "credentials"

\* The kinds of the calls of a call sequence, in order.
Ops(cs) == [i \in DOMAIN cs |-> cs[i].op]

AllPresent ==
    api # NoApi /\ username # Absent /\ password # Absent /\ apiKey # Absent

\* C3 (as claimed): initialized and a non-null error are never both set unless
\* a reload has happened.
C3_NeverBothWithoutReload ==
    (initialized /\ error # NoError) => reload > 1

\* C3 (amended): with api, username, password and apiKey all present the
\* component eventually has initialized or error set (or is unmounted); a
\* resolved init call sets initialized and leaves error as it is, a rejected one
\* sets error and leaves initialized as it is.
C3_EventuallyOneOfAndOnePerCompletion ==
    /\ (mounted /\ AllPresent) ~> (initialized \/ error # NoError \/ ~mounted)
    /\ [][(mounted /\ lastAct' = "initOk") => (initialized' /\ error' = error)]_vars
    /\ [][(mounted /\ lastAct' = "initFail") =>
            (error' = AuthInitError /\ initialized' = initialized)]_vars

\* C3 witness: all inputs present and the init call has resolved.
C3_Witness ==
    mounted /\ AllPresent /\ lastAct = "initOk" /\ initialized /\ error = NoError

\* C5 (as claimed): a reload click adds 1 to reload, clears error and makes
\* exactly one destroy call followed by exactly one init call.
C5_ReloadAlwaysDestroysAndInits ==
    [][lastAct' = "reload" =>
        /\ reload' = reload + 1
        /\ error' = NoError
        /\ Ops(calls') = <<"destroy", "init">>]_vars

\* C5 (amended): a reload click adds 1 to reload and clears error; with api,
\* username, password and apiKey all present it makes exactly one destroy call
\* followed by exactly one init call, and with one of them absent it makes no
\* call.
C5_ReloadDestroysAndInitsWhenAllPresent ==
    [][lastAct' = "reload" =>
        /\ reload' = reload + 1
        /\ error' = NoError
        /\ Ops(calls') = IF AllPresent THEN <<"destroy", "init">> ELSE <<>>]_vars

\* C5 witness: a reload click with all inputs present.
C5_Witness ==
    /\ lastAct = "reload" /\ AllPresent /\ reload = 2 /\ error = NoError
    /\ Ops(calls) = <<"destroy", "init">>

\* C6 (as claimed): whenever an error is shown the reload control is available.
C6_ReloadAlwaysAvailable ==
    (mounted /\ error # NoError) => ReloadEnabled

\* C6 (amended): a rejected init call and a rejected open call both set error;
\* after an open failure the reload control is available, after an init failure
\* it is available exactly when initialized is set.
C6_ReloadAvailableWhenInitialized ==
    /\ [](mounted /\ error = OpenImageError => ReloadEnabled)
    /\ [](mounted /\ error = AuthInitError => (ReloadEnabled <=> initialized))
    /\ [][(mounted /\ lastAct' = "initFail") => error' = AuthInitError]_vars
    /\ [][(mounted /\ lastAct' = "openFail") => error' = OpenImageError]_vars

\* C6 witness: an open call has just failed and the reload control is shown.
C6_Witness ==
    mounted /\ lastAct = "openFail" /\ error = OpenImageError /\ ReloadEnabled

TeardownTriggers == {"credentials", "apiKey", "reload", "unmount"}

\* C7 (as claimed): every credential change, apiKey change, reload and unmount
\* makes exactly one destroy call, on the current target element.
C7_DestroyOncePerTrigger ==
    [][lastAct' \in TeardownTriggers =>
        \E i \in DOMAIN calls' :
            /\ At(calls', "destroy") = {i}
            /\ calls'[i].ev = targetElement]_vars

\* C7 (amended): a credential change, apiKey change, reload or unmount that tears
\* down a run which issued an init call makes exactly one destroy call, with the
\* target element that run captured; if the torn-down run stopped at its guard
\* no destroy call is made.
C7_DestroyOncePerActiveRun ==
    [][lastAct' \in TeardownTriggers =>
        IF initRun.active
        THEN \E i \in DOMAIN calls' :
                /\ At(calls', "destroy") = {i}
                /\ calls'[i].ev = initRun.target
                /\ initRun.target = targetElement
        ELSE At(calls', "destroy") = {}]_vars

\* C7 witness: an unmount that destroyed the initialized API.
C7_Witness ==
    lastAct = "unmount" /\ Ops(calls) = <<"destroy">> /\ calls[1].ev = targetElement

\* C8: in the task of an input change, every destroy call precedes the init
\* call, and the init call comes after the destroy of the run it replaces.
C8_DestroyBeforeInit ==
    [][\A i \in At(calls', "init") :
        /\ \A j \in At(calls', "destroy") : j < i
        /\ initRun.active =>
              \E j \in 1..(i - 1) : calls'[j] = Call("destroy", 0, initRun.target)]_vars

\* C8 witness: a credential change that destroyed the previous run and re-issued init.
C8_Witness ==
    lastAct = "credentials" /\ Ops(calls) = <<"destroy", "init">>

\* C9: a task that issues an open call has first removed, with off, both
\* handlers of the session of the run it tears down.
C9_UnsubscribeBeforeOpen ==
    [][\A i \in At(calls', "open") :
        \A h \in subs :
            (openRun.active /\ h.run = openRun.id) =>
                /\ h \notin subs'
                /\ \E j \in 1..(i - 1) : calls'[j] = Call("off", h.run, h.ev)]_vars

\* C9 witness: an imageId change that unsubscribed both handlers and opened again.
C9_Witness ==
    lastAct = "imageId" /\ initialized /\ Ops(calls) = <<"off", "off", "open">>

\* C11: an exception of a teardown call (destroy in the cleanup of the
\* "initialize API" effect, off in the cleanup of the "open image" effect) is
\* caught and logged only: it never leaves the cleanup, and the task goes on
\* (the component stays mounted unless the task is the unmount itself, and
\* the error cell is what the task would have left without the exception).
C11_TeardownErrorIsCaught ==
    [][exc' # "none" =>
          /\ exc' = "caught"
          /\ lastAct' # "unmount" => mounted'
          /\ lastAct' \notin {"reload", "initFail"} => error' = error]_vars

\* C12: in every reachable state, a VIEW_CHANGE event a viewer delivers with
\* the detail {yaw, pitch} makes exactly one call of setPov, with
\* {heading: yaw, pitch: pitch}.
C12_OneSetPovPerViewChange ==
    lastAct = "viewChange" =>
        out = <<HostCall("setPov", [heading |-> delivered.detail.yaw,
                                    pitch |-> delivered.detail.pitch])>>

\* C13: a RECORDING_CLICK event whose detail carries a recording with xyz and
\* id makes exactly one call of setLocation, with latLng = {lat: xyz[1],
\* lng: xyz[0]} and the properties of the recording plus imageId = id; an
\* event with no detail, no recording, no xyz or no id makes no call.
C13_OneSetLocationPerRecordingClick ==
    lastAct = "recordingClick" =>
        LET d == delivered.detail
        IN  IF d.kind = "recording" /\ d.recording.xyz # <<>> /\ d.recording.id # Absent
            THEN /\ Len(out) = 1
                 /\ out[1].fn = "setLocation"
                 /\ out[1].arg.latLng.lat = d.recording.xyz[2]
                 /\ out[1].arg.latLng.lng = d.recording.xyz[1]
                 /\ out[1].arg.properties.imageId = d.recording.id
                 /\ \A f \in DOMAIN d.recording :
                        /\ f \in DOMAIN out[1].arg.properties
                        /\ out[1].arg.properties[f] = d.recording[f]
                 /\ DOMAIN out[1].arg.properties = DOMAIN d.recording \cup {"imageId"}
            ELSE out = <<>>

\* C14: for every error whose message (the message field of an object, the
\* text of a string) contains the text of the 401 failure, getErrorMessage
\* gives the localized invalid-credentials message; for any other error it
\* gives the error's own message field, or "Unknown error" when the error has
\* no message field.
C14_ErrorMessageDerivation ==
    message # NoMessage =>
        IF payload.kind \in {"string", "object"} /\ indexOf(payload.text, AuthFailedText) >= 0
        THEN message = InvalidCredentialsMessage
        ELSE IF payload.kind = "object"
             THEN message = [kind |-> "text", text |-> payload.text]
             ELSE message = UnknownError

\* The LifecycleState of the component's cells: an error set is Error, else
\* initialized is Initialized, else initializing is Initializing.
Lifecycle ==
    IF error # NoError THEN "Error"
    ELSE IF initialized THEN "Initialized"
    ELSE IF initializing THEN "Initializing"
    ELSE "Uninitialized"

C16_ExclusiveViews ==
    mounted =>
        /\ ~(PanoramaVisible /\ EmptyState # "null")
        /\ ~(PanoramaVisible /\ ErrorBanner)
        /\ ~(EmptyState # "null" /\ ErrorBanner)
        /\ EmptyState # "null" <=> (hasCredentials /\ ~PanoramaVisible /\ error = NoError)

\* C17: every off call of a task is made by the cleanup of the run being torn
\* down, on the viewer that run obtained, and the handlers a task removes are
\* those that run subscribed: a completion of an open call, or the cleanup of
\* another run, removes no handler of a different run.
C17_CleanupOnlyOwnHandlers ==
    [][/\ \A i \in At(calls', "off") :
              /\ openRun.active /\ openRun.hasViewer
              /\ calls'[i].id = openRun.id
       /\ \A h \in subs \ subs' :
              /\ openRun.active /\ openRun.hasViewer
              /\ h.run = openRun.id /\ h.api = openRun.api
       /\ lastAct' \in {"openOk", "openEmpty", "openFail"} => subs \subseteq subs']_vars

\* A cleanup has unsubscribed its own handlers while handlers of another run
\* stay subscribed.
C17_Witness == At(calls, "off") # {} /\ subs # {} /\ exc = "none"

\* C18: whenever initialized is set and the "initialize API" effect has a run
\* in force, the init call of that run (the one issued last, for the current
\* credentials, apiKey and reload) has succeeded; and the completion of an
\* init call that an input change superseded sets neither initialized nor
\* error.
C18_StaleInitCompletionTolerated ==
    /\ [](mounted /\ initialized /\ initRun.active =>
              initRun.call \notin pendingInit /\ libState = "ready")
    /\ [][\A c \in pendingInit \ pendingInit' :
              (mounted /\ (~initRun.active \/ c # initRun.call)) =>
                  initialized' = initialized /\ error' = error]_vars

\* C19: once the library has been destroyed under an open panorama session
\* (reload, or a change of the credentials or of the apiKey) and the init call
\* that followed has succeeded, with an imageId still passed, a session is
\* opened again on the reinitialized library: when every promise has settled,
\* the "open image" effect has run again, and the handlers of its session are
\* subscribed if its open call gave a viewer.
C19_SessionReopenedAfterReinit ==
    (mounted /\ libState = "ready" /\ imageId # Absent
        /\ pendingInit = {} /\ pendingOpen = {}) => ~sessionLost

\* C20: the enhancer passes on the widgetTools it received, unchanged and in
\* order, followed by exactly one download entry; a task opens at most one
\* window, and only the task that handles the lookup response of a click, when
\* that response has total = 1.
C20_ToolsKeptAndOneWindowOnSingleMatch ==
    LET given == IF widgetTools.defined THEN widgetTools.tools ELSE <<>>
    IN  /\ exportAct # "idle" =>
              /\ Len(enhanced) = Len(given) + 1
              /\ SubSeq(enhanced, 1, Len(given)) = given
              /\ enhanced[Len(enhanced)].glyph = "download"
              /\ enhanced[Len(enhanced)].target = "menu"
        /\ Len(windows) <= 1
        /\ windows # <<>> => exportAct = "response" /\ lastTotal = 1 /\ clicks > 0

\* The response of a click's lookup has opened the window, the enhancer having
\* been given two tools.
C20_Witness ==
    /\ exportAct = "response" /\ lastTotal = 1 /\ windows = <<DownloadFileUrl>>
    /\ widgetTools.defined /\ Len(widgetTools.tools) = 2
    /\ Len(enhanced) = 3

====
